---- MODULE Spec2Model ----
(***************************************************************************)
(* Model of Server.py (LiveData): the meter store built by LoadSettings,   *)
(* the cache/poll coordinator GoModbus, the AutoPoll thread RegularUpdate  *)
(* and the shutdown handler Killer.                                        *)
(*                                                                         *)
(* Python objects have identity.  Meter records live in `heap` (object id  *)
(* = index), their ThreadLock in `locks`, and every dict object that ever  *)
(* carries the meters lives in `dicts`; the global name `meters` is an     *)
(* index into `dicts`, because line 71 rebinds the name to a new dict      *)
(* while the AutoPoll thread keeps the dict object it was started with.    *)
(* Threads interleave between the steps below; each step is one or a few   *)
(* statements of the source, and every `meters[id]` lookup is made afresh  *)
(* in each step, as in the source.                                         *)
(***************************************************************************)
EXTENDS Integers, Sequences, FiniteSets, TLC

\* ---- bounds of the model
MaxTime == 3        \* the clock stops advancing here
MaxReloads == 1     \* number of /command?reload requests served
MaxCalls == 2       \* number of /getdata requests served
MaxWord == 1        \* largest 16-bit word a device answers with

\* ---- program constants
DateMin == 0        \* datetime.min, "the dawn of time"
MinPollTime == 1    \* config minpolltime (1000 ms), in clock units of one second
AutoPollSec == 1    \* config autopollsec

IDs == {"a", "b", "c"}                \* the meters of the definition files
Requested == {"a"}               \* the ids clients ask /getdata for
Http == {"h1", "h2"}            \* request threads of ThreadingTCPServer
AP == "ap"                      \* the AutoPollThread
Callers == Http \cup {AP}

\* ---- the meter definition file: rows of strings, as DictReader yields them
Row(id, be, au, cnt, enc) ==
    [ID |-> id, BigEndian |-> be, AutoUpdate |-> au, Count |-> cnt, Encoding |-> enc]

GoodFile == << Row("a", "true", "true", "1", "H"), Row("b", "", "false", "1", "H") >>
\* a well-formed file whose row a declares a 32-bit encoding for one word
WideFile == << Row("a", "big", "yes", "1", "I"), Row("b", "<", "1", "1", "H") >>
BadAutoFile == << Row("a", "true", "true", "1", "H"), Row("b", "", "maybe", "1", "H") >>
BadEndianFile == << Row("a", "true", "no", "1", "H"), Row("b", "middle", "false", "1", "H") >>
\* a list that names a new meter before its bad row
BadCountFile == << Row("c", "true", "true", "1", "H"), Row("b", "", "false", "x", "H") >>
Files == {GoodFile, WideFile, BadAutoFile, BadEndianFile, BadCountFile}
\* the meter lists of a start-up whose first load (line 206) succeeds
StartFiles == {GoodFile, WideFile}

\* int(item.get('Count',0)): ValueError on anything that is not a number
IsInt(tok) == tok \in {"0", "1", "2"}
IntOf(tok) == CASE tok = "0" -> 0 [] tok = "1" -> 1 [] tok = "2" -> 2

\* lines 54-60: "T", "F" or "ValueError"
ParseBigEndian(tok) ==
    IF tok \in {">", "big", "true", "1", "yes", ""} THEN "T"
    ELSE IF tok \in {"<", "little", "false", "0", "no"} THEN "F"
    ELSE "ValueError"

\* lines 61-67
ParseAutoUpdate(tok) ==
    IF tok \in {"true", "1", "yes"} THEN "T"
    ELSE IF tok \in {"false", "0", "no", ""} THEN "F"
    ELSE "ValueError"

\* whether lines 40-67 raise ValueError on this row
RowFails(row) ==
    \/ ~IsInt(row.Count)
    \/ ParseBigEndian(row.BigEndian) = "ValueError"
    \/ ParseAutoUpdate(row.AutoUpdate) = "ValueError"

\* the record lines 40-67 build from a well-formed row
NewRecord(row) ==
    [Count |-> IntOf(row.Count), Scale |-> 1, Encoding |-> row.Encoding,
     BigEndian |-> (ParseBigEndian(row.BigEndian) = "T"),
     AutoUpdate |-> (ParseAutoUpdate(row.AutoUpdate) = "T"),
     Value |-> 0, PrevValue |-> 0,
     Timestamp |-> DateMin, PrevChangeTime |-> DateMin, ChangeTime |-> DateMin]

\* ---- dicts: insertion-ordered sequences of [id, ref]
Keys(d) == {d[i].id : i \in 1..Len(d)}
\* d[id], or 0 for KeyError
Get(d, id) ==
    IF id \in Keys(d) THEN (CHOOSE e \in {d[i] : i \in 1..Len(d)} : e.id = id).ref ELSE 0
\* d.update({id: ref})
Put(d, id, ref) ==
    IF id \in Keys(d)
    THEN [i \in 1..Len(d) |-> IF d[i].id = id THEN [id |-> id, ref |-> ref] ELSE d[i]]
    ELSE Append(d, [id |-> id, ref |-> ref])

\* ---- the decoder of line 82
RECURSIVE Reversed(_)
Reversed(s) == IF s = << >> THEN << >> ELSE Append(Reversed(Tail(s)), Head(s))
\* big-endian unsigned integer spanning the words
RECURSIVE WordsToInt(_)
WordsToInt(s) ==
    IF s = << >> THEN 0 ELSE WordsToInt(SubSeq(s, 1, Len(s) - 1)) * 65536 + s[Len(s)]
\* number of 16-bit words a struct format consumes
EncodingWords(enc) == IF enc = "I" THEN 2 ELSE 1
DecodeFails(words, enc) == EncodingWords(enc) # Len(words)
Decode(words, bigEndian, scale) ==
    scale * WordsToInt(IF bigEndian THEN words ELSE Reversed(words))

\* master.execute answers Count words
Results(count) == [1..count -> 0..MaxWord]

\* a gate that also lets through a reading exactly minpolltime old
StaleGe(t, ts) == t - ts >= MinPollTime

\* a gate that lets every call through
StaleAlways(t, ts) == TRUE

\* line 77: the cached data is stale
Stale(t, ts) == t - ts > MinPollTime

VARIABLES
    now,        \* datetime.utcnow()
    heap,       \* meter records, by object id
    locks,      \* ThreadLock of each record: TRUE when locked
    dicts,      \* dict objects, by object id
    meters,     \* the dict the global name `meters` is bound to
    \* LoadSettings, called from do_GET /command?reload
    rpc, backup, src, failed, reply, reloads,
    pre,        \* history: the live dict as the last reload found it
    \* GoModbus, per calling thread
    pc, id, val, status, ret, hist, calls,
    \* RegularUpdate
    appc, itPos, itUsed, apId, wake,
    cycle,      \* history: the ids the current cycle passed to GoModbus
    \* Killer
    kpc, serving, Shutdown

storeVars == <<heap, locks, dicts, meters>>
reloadVars == <<rpc, backup, src, failed, reply, reloads, pre>>
callVars == <<pc, id, val, status, ret, hist, calls>>
apVars == <<appc, itPos, itUsed, apId, wake, cycle>>
killVars == <<kpc, serving, Shutdown>>
vars == <<now, storeVars, reloadVars, callVars, apVars, killVars>>

\* the dict object RegularUpdate received as its argument (line 208)
APDict == 1
\* history of a RegularUpdate cycle; at, clean: the number of reloads that had
\* finished, and that none was running, when the cycle began
NoCycle == [polled |-> {}, at |-> 0, clean |-> TRUE]

\* history of a call, kept for stating properties; never read by an action's guard
\* acq: the Lock acquired and not yet released; outcome: how the fetch ended;
\* staleCall: the record was stale when GoModbus was called; checkedAt: the
\* clock read by line 77; target, oldValue, oldChangeTime: the record line 84
\* wrote and what it held; concur: the threads whose call of the same id
\* overlapped this one; prior: those that had returned when this one began;
\* gate: how line 77 went ("fresh", "stale" then "busy" or "won", "keyerror"),
\* "unheld" once line 98 released a Lock that was not locked; seenTs: the
\* Timestamp line 77 compared; seen: every state the record of the id has been
\* in since the call began; first: the record lines 83-90 wrote was as loaded
NoHist == [acq |-> 0, outcome |-> "none", staleCall |-> FALSE, checkedAt |-> 0,
           target |-> 0, oldValue |-> 0, oldChangeTime |-> 0,
           concur |-> {}, prior |-> {}, gate |-> "none", seenTs |-> 0, seen |-> {},
           first |-> FALSE]
\* the cache fields of a record or of a returned dictionary
Reading(r) == <<r.Value, r.Timestamp, r.ChangeTime, r.PrevValue, r.PrevChangeTime>>
\* the dictionary line 101 returns (Name and Units are configuration strings)
Snapshot(r, st) ==
    [Value |-> r.Value, Timestamp |-> r.Timestamp, ChangeTime |-> r.ChangeTime,
     PrevValue |-> r.PrevValue, PrevChangeTime |-> r.PrevChangeTime, Status |-> st]
NoRet == Snapshot(NewRecord(GoodFile[1]), "none")
\* line 101 reads the record one field at a time, in this order
RetOrder == <<"Value", "Timestamp", "ChangeTime", "PrevValue", "PrevChangeTime">>
\* the position of a thread that is about to read the k-th of them
RetPc == <<"ret", "retTimestamp", "retChangeTime", "retPrevValue", "retPrevChangeTime">>
Returning == {RetPc[k] : k \in 1..Len(RetPc)}
Active(c) == pc[c] \in {"check", "acquire", "fetch", "update", "seed", "release"} \cup Returning

\* state after lines 205-209: initial load of a well-formed file, thread started
Init ==
    /\ now = DateMin + MinPollTime + 1
    /\ \E f \in StartFiles : heap = << NewRecord(f[1]), NewRecord(f[2]) >>
    /\ locks = << FALSE, FALSE >>
    /\ dicts = << << [id |-> "a", ref |-> 1], [id |-> "b", ref |-> 2] >> >>
    /\ meters = 1
    /\ rpc = "idle" /\ backup = << >> /\ src = << >> /\ failed = FALSE
    /\ reply = "none" /\ reloads = 0 /\ pre = << >>
    /\ pc = [c \in Callers |-> "idle"]
    /\ id = [c \in Callers |-> "a"]
    /\ val = [c \in Callers |-> 0]
    /\ status = [c \in Callers |-> "none"]
    /\ ret = [c \in Callers |-> NoRet]
    /\ hist = [c \in Callers |-> NoHist]
    /\ calls = 0
    /\ appc = "top" /\ itPos = 1 /\ itUsed = 0 /\ apId = "a" /\ wake = 0
    /\ cycle = NoCycle
    /\ kpc = "idle" /\ serving = TRUE /\ Shutdown = FALSE

\* the clock advances on its own; it is followed up to MaxTime, and beyond
\* that to the end of a sleep that was under way when the flag was set
Tick ==
    /\ \/ now < MaxTime
       \/ Shutdown /\ appc = "sleep" /\ now < wake
    /\ now' = now + 1
    /\ UNCHANGED <<storeVars, reloadVars, callVars, apVars, killVars>>

\* ------------------------------------------------------------------------
\* LoadSettings, run by the request thread that serves /command?reload
\* ------------------------------------------------------------------------

\* do_GET lines 119-125 and LoadSettings lines 34-35: the file is opened
ReloadBegin ==
    /\ rpc = "idle" /\ serving /\ reloads < MaxReloads
    /\ \E f \in Files : src' = f
    /\ rpc' = "backup" /\ failed' = FALSE /\ reply' = "none"
    /\ UNCHANGED <<now, storeVars, backup, reloads, pre, callVars, apVars, killVars>>

\* line 36: backup = meters.copy(), a shallow copy that shares the records
ReloadBackup ==
    /\ rpc = "backup"
    /\ backup' = dicts[meters]
    /\ pre' = dicts[meters]
    /\ rpc' = "clear"
    /\ UNCHANGED <<now, storeVars, src, failed, reply, reloads, callVars, apVars, killVars>>

\* line 37: meters.clear() empties the live dict in place
ReloadClear ==
    /\ rpc = "clear"
    /\ dicts' = [dicts EXCEPT ![meters] = << >>]
    /\ rpc' = "load"
    /\ UNCHANGED <<now, heap, locks, meters, backup, src, failed, reply, reloads, pre,
                   callVars, apVars, killVars>>

\* lines 39-68, one row: a new record with a new Lock goes into the live dict,
\* or ValueError is raised before line 68
LoadRow(row) ==
    IF RowFails(row)
    THEN /\ rpc' = "restore"
         /\ UNCHANGED <<heap, locks, dicts, src>>
    ELSE /\ heap' = Append(heap, NewRecord(row))
         /\ locks' = Append(locks, FALSE)
         /\ dicts' = [dicts EXCEPT ![meters] = Put(@, row.ID, Len(heap) + 1)]
         /\ src' = Tail(src)
         /\ rpc' = "load"

ReloadRow ==
    /\ rpc = "load" /\ src # << >>
    /\ LoadRow(Head(src))
    /\ UNCHANGED <<now, meters, backup, failed, reply, reloads, pre, callVars, apVars, killVars>>

\* Records no dict refers to any more are freed by the interpreter; they are
\* given one fixed content, since nothing can read them again.
Referenced(ds) == UNION {{ds[k][i].ref : i \in 1..Len(ds[k])} : k \in 1..Len(ds)}
Freed == [NewRecord(GoodFile[1]) EXCEPT !.Count = 0]
Collect(h, ds) == [o \in 1..Len(h) |-> IF o \in Referenced(ds) THEN h[o] ELSE Freed]
CollectLocks(l, ds) == [o \in 1..Len(l) |-> o \in Referenced(ds) /\ l[o]]

\* line 39, the file is exhausted: LoadSettings returns and its backup dies
ReloadEnd ==
    /\ rpc = "load" /\ src = << >>
    /\ rpc' = "reply"
    /\ backup' = << >>
    /\ heap' = Collect(heap, dicts)
    /\ locks' = CollectLocks(locks, dicts)
    /\ UNCHANGED <<now, dicts, meters, src, failed, reply, reloads, pre, callVars, apVars, killVars>>

\* lines 69-72: the name `meters` is bound to a new dict, a copy of the backup
ReloadRestore ==
    /\ rpc = "restore"
    /\ dicts' = Append(dicts, backup)
    /\ meters' = Len(dicts) + 1
    /\ failed' = TRUE
    /\ backup' = << >>                  \* line 72
    /\ src' = << >>                     \* the with block closes the file
    /\ heap' = Collect(heap, dicts')
    /\ locks' = CollectLocks(locks, dicts')
    /\ rpc' = "reply"
    /\ UNCHANGED <<now, reply, reloads, pre, callVars, apVars, killVars>>

\* what do_GET writes to the client after LoadSettings returned
ReloadAnswer(fail) == "Done"

\* do_GET lines 126-128
ReloadReply ==
    /\ rpc = "reply"
    /\ reply' = ReloadAnswer(failed)
    /\ reloads' = reloads + 1
    /\ rpc' = "idle"
    /\ UNCHANGED <<now, storeVars, backup, src, failed, pre, callVars, apVars, killVars>>

LoadSettings ==
    \/ ReloadBegin \/ ReloadBackup \/ ReloadClear \/ ReloadRow
    \/ ReloadEnd \/ ReloadRestore \/ ReloadReply

\* ------------------------------------------------------------------------
\* GoModbus(id), run by thread c
\* ------------------------------------------------------------------------

\* meters[id] through the global name: the record's object id, 0 for KeyError
Lookup(c) == Get(dicts[meters], id[c])

\* GoModbus is entered: the call's history starts
Enter(c, i) ==
    /\ pc' = [pc EXCEPT ![c] = "check"]
    /\ id' = [id EXCEPT ![c] = i]
    /\ val' = [val EXCEPT ![c] = 0]
    /\ status' = [status EXCEPT ![c] = "none"]
    /\ ret' = [ret EXCEPT ![c] = NoRet]
    /\ hist' = [d \in Callers |->
                 IF d = c
                 THEN [NoHist EXCEPT
                         !.staleCall = LET r == Get(dicts[meters], i)
                                       IN  r # 0 /\ Stale(now, heap[r].Timestamp),
                         !.seen = LET r == Get(dicts[meters], i)
                                  IN  IF r = 0 THEN {} ELSE {Reading(heap[r])},
                         !.concur = {e \in Callers \ {c} : Active(e) /\ id[e] = i},
                         !.prior = {e \in Callers \ {c} : pc[e] = "done" /\ id[e] = i}]
                 ELSE [hist[d] EXCEPT !.prior = @ \ {c},
                                      !.concur = IF Active(d) /\ id[d] = i
                                                 THEN @ \cup {c} ELSE @]]

\* do_GET lines 106-116: /getdata?id=i is served only for a key of meters
Call(c, i) ==
    /\ pc[c] = "idle" /\ serving /\ calls < MaxCalls
    /\ i \in Keys(dicts[meters])
    /\ Enter(c, i)
    /\ calls' = calls + 1
    /\ UNCHANGED <<now, storeVars, reloadVars, apVars, killVars>>

\* line 77, left operand: the staleness gate
Check(c) ==
    /\ pc[c] = "check"
    /\ hist' = [hist EXCEPT
                 ![c].checkedAt = now,
                 ![c].seenTs = IF Lookup(c) = 0 THEN 0 ELSE heap[Lookup(c)].Timestamp,
                 ![c].gate = IF Lookup(c) = 0 THEN "keyerror"
                             ELSE IF Stale(now, heap[Lookup(c)].Timestamp) THEN "stale"
                             ELSE "fresh"]
    /\ IF Lookup(c) = 0
       THEN /\ pc' = [pc EXCEPT ![c] = "raised"]        \* KeyError
            /\ UNCHANGED status
       ELSE IF Stale(now, heap[Lookup(c)].Timestamp)
       THEN /\ pc' = [pc EXCEPT ![c] = "acquire"]
            /\ UNCHANGED status
       ELSE /\ pc' = [pc EXCEPT ![c] = "ret"]           \* line 100
            /\ status' = [status EXCEPT ![c] = "Cached"]
    /\ UNCHANGED <<now, storeVars, reloadVars, id, val, ret, calls, apVars, killVars>>

\* an acquire that never finds the Lock taken
HeldNever(o) == FALSE

\* line 77: acquire(False) finds the Lock of record o taken and returns False
Held(o) == locks[o]

\* line 77, right operand: ThreadLock.acquire(False)
Acquire(c) ==
    /\ pc[c] = "acquire"
    /\ IF Lookup(c) = 0
       THEN /\ pc' = [pc EXCEPT ![c] = "raised"]        \* KeyError
            /\ hist' = [hist EXCEPT ![c].gate = "keyerror"]
            /\ UNCHANGED <<locks, status>>
       ELSE IF Held(Lookup(c))
       THEN /\ pc' = [pc EXCEPT ![c] = "ret"]           \* line 100
            /\ status' = [status EXCEPT ![c] = "Cached"]
            /\ hist' = [hist EXCEPT ![c].gate = "busy"]
            /\ UNCHANGED locks
       ELSE /\ locks' = [locks EXCEPT ![Lookup(c)] = TRUE]
            /\ pc' = [pc EXCEPT ![c] = "fetch"]
            /\ hist' = [hist EXCEPT ![c].acq = Lookup(c), ![c].gate = "won"]
            /\ UNCHANGED status
    /\ UNCHANGED <<now, heap, dicts, meters, reloadVars, id, val, ret, calls, apVars, killVars>>

\* except clauses that stamp the failed attempt into the record
ExceptHeapStamp(r) == IF r = 0 THEN heap ELSE [heap EXCEPT ![r].Timestamp = now]

\* lines 91-96: what the except clauses leave in the store
ExceptHeap(r) == heap

\* an exception reaches line 91 or line 94
Except(c, st, kind) ==
    /\ heap' = ExceptHeap(Lookup(c))
    /\ status' = [status EXCEPT ![c] = st]
    /\ pc' = [pc EXCEPT ![c] = "release"]
    /\ hist' = [hist EXCEPT ![c].outcome = IF @ = "none" THEN kind ELSE @]
    /\ UNCHANGED <<val, now>>

\* lines 79-82: fetch the words and decode them
Fetch(c) ==
    /\ pc[c] = "fetch"
    /\ IF Lookup(c) = 0
       THEN Except(c, "Error KeyError", "keyerror")
       ELSE LET r == heap[Lookup(c)] IN
            \/ Except(c, "Modbus Error 2", "modbus")
            \/ Except(c, "Error timed out", "transport")
            \/ \E words \in Results(r.Count) :
                 IF DecodeFails(words, r.Encoding)
                 THEN Except(c, "Error unpack requires a buffer", "decode")
                 ELSE /\ val' = [val EXCEPT ![c] = Decode(words, r.BigEndian, r.Scale)]
                      /\ pc' = [pc EXCEPT ![c] = "update"]
                      /\ hist' = [hist EXCEPT ![c].outcome = "ok"]
                      /\ UNCHANGED <<heap, status, now>>
    /\ UNCHANGED <<locks, dicts, meters, reloadVars, id, ret, calls, apVars, killVars>>

\* history: record o has come to hold rec, noted for every call of its id under way
Noted(h, o, rec) ==
    [d \in Callers |->
        IF Active(d) /\ Get(dicts[meters], id[d]) = o
        THEN [h[d] EXCEPT !.seen = @ \cup {Reading(rec)}] ELSE h[d]]

\* line 84: the record after a change; t1 and t2 are the two clock reads
Changed(r, v, t1, t2) ==
    [r EXCEPT !.PrevValue = r.Value, !.PrevChangeTime = r.ChangeTime,
              !.Value = v, !.Timestamp = t1, !.ChangeTime = t2]

\* an unchanged reading that is stamped as a change
UnchangedTouch(r, t) == [r EXCEPT !.Timestamp = t, !.ChangeTime = t]

\* line 89: the record after an unchanged reading
Unchanged(r, t) == [r EXCEPT !.Timestamp = t]

\* lines 47-51: the cache fields are the defaults LoadSettings gave them
AsLoaded(r) ==
    /\ r.Value = 0 /\ r.PrevValue = 0
    /\ r.Timestamp = DateMin /\ r.PrevChangeTime = DateMin /\ r.ChangeTime = DateMin

\* lines 83-85 and 88-90
Update(c) ==
    /\ pc[c] = "update"
    /\ IF Lookup(c) = 0
       THEN Except(c, "Error KeyError", "keyerror")
       ELSE LET o == Lookup(c)
                r == heap[o] IN
            IF val[c] # r.Value
            THEN \E t2 \in {now, now + 1} :
                   /\ t2 <= MaxTime
                   /\ heap' = [heap EXCEPT ![o] = Changed(r, val[c], now, t2)]
                   /\ now' = t2
                   /\ status' = [status EXCEPT ![c] = "Polled"]
                   /\ pc' = [pc EXCEPT ![c] = "seed"]
                   /\ hist' = Noted([hist EXCEPT ![c].target = o, ![c].oldValue = r.Value,
                                                 ![c].oldChangeTime = r.ChangeTime,
                                                 ![c].first = AsLoaded(r)],
                                    o, Changed(r, val[c], now, t2))
                   /\ UNCHANGED val
            ELSE /\ heap' = [heap EXCEPT ![o] = Unchanged(r, now)]
                 /\ status' = [status EXCEPT ![c] = "Polled but no recent change"]
                 /\ pc' = [pc EXCEPT ![c] = "release"]
                 /\ hist' = Noted([hist EXCEPT ![c].target = o, ![c].oldValue = r.Value,
                                               ![c].oldChangeTime = r.ChangeTime,
                                               ![c].first = AsLoaded(r)],
                                  o, Unchanged(r, now))
                 /\ UNCHANGED <<val, now>>
    /\ UNCHANGED <<locks, dicts, meters, reloadVars, id, ret, calls, apVars, killVars>>

\* a first-poll test that never holds
FirstPollNever(r) == FALSE

\* line 86: the first-poll condition
FirstPoll(r) == r.PrevChangeTime = DateMin /\ r.PrevValue = 0

\* lines 86-87: the record after the first-poll test
Seeded(r) == IF FirstPoll(r) THEN [r EXCEPT !.PrevValue = r.Value] ELSE r

\* lines 86-87
Seed(c) ==
    /\ pc[c] = "seed"
    /\ IF Lookup(c) = 0
       THEN Except(c, "Error KeyError", "keyerror")
       ELSE /\ heap' = [heap EXCEPT ![Lookup(c)] = Seeded(@)]
            /\ pc' = [pc EXCEPT ![c] = "release"]
            /\ hist' = Noted(hist, Lookup(c), Seeded(heap[Lookup(c)]))
            /\ UNCHANGED <<now, val, status>>
    /\ UNCHANGED <<locks, dicts, meters, reloadVars, id, ret, calls, apVars, killVars>>

\* lines 97-98: meters[id]['ThreadLock'].release()
Release(c) ==
    /\ pc[c] = "release"
    /\ IF Lookup(c) = 0 \/ ~locks[Lookup(c)]
       THEN /\ pc' = [pc EXCEPT ![c] = "raised"]   \* KeyError, or RuntimeError: release unlocked lock
            /\ UNCHANGED locks
            /\ hist' = [hist EXCEPT ![c].target = 0, ![c].oldValue = 0, ![c].oldChangeTime = 0,
                                    ![c].first = FALSE,
                                    ![c].gate = IF Lookup(c) # 0 THEN "unheld" ELSE @]
       ELSE /\ locks' = [locks EXCEPT ![Lookup(c)] = FALSE]
            /\ pc' = [pc EXCEPT ![c] = "ret"]
            /\ hist' = [hist EXCEPT ![c].acq = IF @ = Lookup(c) THEN 0 ELSE @,
                                    ![c].target = 0, ![c].oldValue = 0, ![c].oldChangeTime = 0,
                                    ![c].first = FALSE]
    /\ UNCHANGED <<now, heap, dicts, meters, reloadVars, id, val, status, ret, calls, apVars, killVars>>

\* line 101: one meters[id][field] of the dictionary display is evaluated;
\* 'Status' is the local variable and closes the display
Return(c) ==
    /\ \E k \in 1..Len(RetPc) :
         /\ pc[c] = RetPc[k]
         /\ IF Lookup(c) = 0
            THEN /\ pc' = [pc EXCEPT ![c] = "raised"]        \* KeyError
                 /\ UNCHANGED ret
            ELSE /\ ret' = [ret EXCEPT
                             ![c][RetOrder[k]] = heap[Lookup(c)][RetOrder[k]],
                             ![c].Status = IF k = Len(RetPc) THEN status[c] ELSE @]
                 /\ pc' = [pc EXCEPT ![c] = IF k = Len(RetPc) THEN "done" ELSE RetPc[k + 1]]
    /\ UNCHANGED <<now, storeVars, reloadVars, id, val, status, hist, calls, apVars, killVars>>

\* do_GET lines 116-118: the answer is written (or the handler dies), the thread is free
Finish(c) ==
    /\ c \in Http
    /\ pc[c] \in {"done", "raised"}
    /\ pc' = [pc EXCEPT ![c] = "idle"]
    /\ id' = [id EXCEPT ![c] = "a"]
    /\ val' = [val EXCEPT ![c] = 0]
    /\ status' = [status EXCEPT ![c] = "none"]
    /\ ret' = [ret EXCEPT ![c] = NoRet]
    /\ hist' = [d \in Callers |-> IF d = c THEN NoHist ELSE [hist[d] EXCEPT !.prior = @ \ {c}]]
    /\ UNCHANGED <<now, storeVars, reloadVars, calls, apVars, killVars>>

GoModbus(c) ==
    \/ Check(c) \/ Acquire(c) \/ Fetch(c) \/ Update(c) \/ Seed(c) \/ Release(c) \/ Return(c)

\* ------------------------------------------------------------------------
\* RegularUpdate(meters, wait, Shutdown): `meters` here is the parameter, the
\* dict object APDict, whatever the global name is bound to
\* ------------------------------------------------------------------------

\* a loop that never tests the flag
APTopDeaf ==
    /\ appc = "top"
    /\ appc' = "next"
    /\ itPos' = 1
    /\ itUsed' = Len(dicts[APDict])
    /\ cycle' = [polled |-> {}, at |-> reloads, clean |-> rpc = "idle"]
    /\ UNCHANGED <<now, storeVars, reloadVars, callVars, apId, wake, killVars>>

\* line 176 and the start of line 177: the flag is tested, then iter(meters)
APTop ==
    /\ appc = "top"
    /\ IF Shutdown
       THEN /\ appc' = "exit"
            /\ UNCHANGED <<itPos, itUsed, cycle>>
       ELSE /\ appc' = "next"
            /\ itPos' = 1
            /\ itUsed' = Len(dicts[APDict])
            /\ cycle' = [polled |-> {}, at |-> reloads, clean |-> rpc = "idle"]
    /\ UNCHANGED <<now, storeVars, reloadVars, callVars, apId, wake, killVars>>

\* line 177, next(iterator): RuntimeError when the dict changed size
APNext ==
    /\ appc = "next"
    /\ IF Len(dicts[APDict]) # itUsed
       THEN /\ appc' = "crashed"
            /\ UNCHANGED <<itPos, apId, wake>>
       ELSE IF itPos > Len(dicts[APDict])
       THEN /\ appc' = "sleep"                    \* line 180: sleep(wait) begins
            /\ wake' = now + AutoPollSec
            /\ UNCHANGED <<itPos, apId>>
       ELSE /\ apId' = dicts[APDict][itPos].id
            /\ itPos' = itPos + 1
            /\ appc' = "flag"
            /\ UNCHANGED wake
    /\ UNCHANGED <<now, storeVars, reloadVars, callVars, itUsed, cycle, killVars>>

\* line 178: meters[id]['AutoUpdate']
APFlag ==
    /\ appc = "flag"
    /\ appc' = IF Get(dicts[APDict], apId) = 0 THEN "crashed"     \* KeyError
               ELSE IF heap[Get(dicts[APDict], apId)].AutoUpdate THEN "name"
               ELSE "next"
    /\ UNCHANGED <<now, storeVars, reloadVars, callVars, itPos, itUsed, apId, wake, cycle, killVars>>

\* line 179: meters[id]["Name"] is evaluated, then GoModbus(id) is called
APCall ==
    /\ appc = "name"
    /\ IF Get(dicts[APDict], apId) = 0
       THEN /\ appc' = "crashed"                                  \* KeyError
            /\ UNCHANGED callVars
       ELSE /\ appc' = "call"
            /\ Enter(AP, apId)
            /\ UNCHANGED calls
    /\ cycle' = [cycle EXCEPT !.polled = IF appc' = "call" THEN @ \cup {apId} ELSE @]
    /\ UNCHANGED <<now, storeVars, reloadVars, itPos, itUsed, apId, wake, killVars>>

\* line 179: GoModbus returned and the line is printed, or its exception ends the thread
APPrint ==
    /\ appc = "call"
    /\ pc[AP] \in {"done", "raised"}
    /\ appc' = IF pc[AP] = "done" THEN "next" ELSE "crashed"
    /\ pc' = [pc EXCEPT ![AP] = "idle"]
    /\ id' = [id EXCEPT ![AP] = "a"]
    /\ val' = [val EXCEPT ![AP] = 0]
    /\ status' = [status EXCEPT ![AP] = "none"]
    /\ ret' = [ret EXCEPT ![AP] = NoRet]
    /\ hist' = [d \in Callers |-> IF d = AP THEN NoHist ELSE [hist[d] EXCEPT !.prior = @ \ {AP}]]
    /\ UNCHANGED <<now, storeVars, reloadVars, calls, itPos, itUsed, apId, wake, cycle, killVars>>

\* line 180: sleep(wait) is over
APWake ==
    /\ appc = "sleep"
    /\ now >= wake
    /\ appc' = "top"
    /\ UNCHANGED <<now, storeVars, reloadVars, callVars, itPos, itUsed, apId, wake, cycle, killVars>>

RegularUpdate == APTop \/ APNext \/ APFlag \/ APCall \/ APPrint \/ APWake

\* ------------------------------------------------------------------------
\* Killer, called from do_GET for the shutdown command
\* ------------------------------------------------------------------------

\* line 184: httpd.shutdown(), no further request is accepted
KillerShutdown ==
    /\ kpc = "idle" /\ serving
    /\ serving' = FALSE
    /\ kpc' = "set"
    /\ UNCHANGED <<now, storeVars, reloadVars, callVars, apVars, Shutdown>>

\* line 185: Shutdown.set()
KillerSet ==
    /\ kpc = "set"
    /\ Shutdown' = TRUE
    /\ kpc' = "done"
    /\ UNCHANGED <<now, storeVars, reloadVars, callVars, apVars, serving>>

Killer == KillerShutdown \/ KillerSet

\* do_GET /getdata served by the request threads S
Poll(S) ==
    \/ \E c \in S, i \in Requested : Call(c, i)
    \/ \E c \in S : GoModbus(c)
    \/ \E c \in S : Finish(c)

\* the whole program
Next ==
    \/ Tick
    \/ LoadSettings
    \/ Poll(Http)
    \/ GoModbus(AP)
    \/ RegularUpdate
    \/ Killer

Spec == Init /\ [][Next]_vars

\* The program with only some of its threads scheduled.  Every behaviour of
\* these is a behaviour of Spec.

\* two request threads polling, no reload
NextPoll == Tick \/ Poll(Http)
SpecPoll == Init /\ [][NextPoll]_vars

\* one request thread polling while another serves reloads
NextReload == Tick \/ Poll({"h1"}) \/ LoadSettings
SpecReload == Init /\ [][NextReload]_vars

\* the AutoPoll thread alone, while a request thread serves reloads
NextAuto == Tick \/ LoadSettings \/ GoModbus(AP) \/ RegularUpdate
SpecAuto == Init /\ [][NextAuto]_vars

\* the AutoPoll thread and the shutdown command; the thread is scheduled again
\* and again, every fetch it starts returns, and time passes
NextStop == Tick \/ GoModbus(AP) \/ RegularUpdate \/ Killer
SpecStop ==
    /\ Init /\ [][NextStop]_vars
    /\ WF_vars(Tick) /\ WF_vars(GoModbus(AP)) /\ WF_vars(RegularUpdate)

\* two request threads polling while another serves reloads, within one
\* reading of the clock
NextRace == Poll(Http) \/ LoadSettings
SpecRace == Init /\ [][NextRace]_vars

\* ------------------------------------------------------------------------
\* Properties
\* ------------------------------------------------------------------------

\* thread c is between a successful acquire (line 77) and the release (line 98)
InSection(c) == pc[c] \in {"fetch", "update", "seed", "release"}
Polled == {"Polled", "Polled but no recent change"}
Failures == {"modbus", "transport", "decode"}
ErrorStatus(kind) ==
    CASE kind = "modbus" -> "Modbus Error 2"
      [] kind = "transport" -> "Error timed out"
      [] kind = "decode" -> "Error unpack requires a buffer"
      [] OTHER -> "none"
ReturnedStatuses ==
    {"Cached", "Modbus Error 2", "Error timed out", "Error unpack requires a buffer",
     "Error KeyError"} \cup Polled

\* C1: single-flight.  For each meter id at most one thread is inside the
\* fetch-and-update section at any instant, whatever polls and reloads run.
\* (Fails under SpecRace: a reload gives the id a new record with a new, free
\* Lock while a poll still holds the Lock of the old record.)
C1_SingleFlight ==
    \A c, d \in Callers :
        (c # d /\ InSection(c) /\ InSection(d)) => id[c] # id[d]

\* C2: of the callers that invoke GoModbus concurrently on the same stale id
\* exactly one fetches and returns a Status other than 'Cached'; in particular
\* no two of them both return a Status other than 'Cached'.  Stated for a run
\* without any reload in which no fetch fails.  (Fails under SpecPoll: the
\* staleness check and the acquire are two steps, and a whole poll of another
\* thread fits in between.)
C2_OneFetchPerBatch ==
    \A c, d \in Http :
        (/\ c # d /\ pc[c] = "done" /\ pc[d] = "done" /\ id[c] = id[d]
         /\ reloads = 0 /\ rpc = "idle"
         /\ hist[c].outcome \in {"none", "ok"} /\ hist[d].outcome \in {"none", "ok"}
         /\ d \in hist[c].concur /\ c \in hist[d].concur
         /\ hist[c].staleCall /\ hist[d].staleCall)
        => ~(status[c] # "Cached" /\ status[d] # "Cached")

\* the second of two calls made one after the other: d had returned when c
\* called, and no other call of that id ran during either
Second(c, d) ==
    /\ c # d /\ pc[c] = "done" /\ pc[d] = "done" /\ id[c] = id[d]
    /\ d \in hist[c].prior
    /\ hist[c].concur = {} /\ hist[d].concur = {}
\* the second call was answered from the cache, with the Timestamp the first left
AnsweredFromCache(c, d) ==
    /\ status[c] = "Cached" /\ ret[c].Status = "Cached"
    /\ ret[c].Timestamp = ret[d].Timestamp
    /\ hist[c].outcome = "none"

C4_StoreAtomic ==
    rpc \in {"load", "restore"} =>
        \/ dicts[meters] = backup
        \/ rpc = "load" /\ src = << >>

\* C5: whenever no poll of a record is in progress, its
\* Timestamp >= ChangeTime >= PrevChangeTime.
\* (Fails under SpecPoll: line 84 reads the clock twice, Timestamp first.)
C5_TimesOrdered ==
    \A o \in 1..Len(heap) :
        ~locks[o] => /\ heap[o].Timestamp >= heap[o].ChangeTime
                     /\ heap[o].ChangeTime >= heap[o].PrevChangeTime

\* C6: GoModbus, called with an id that was a key of meters, never raises,
\* and what it returns carries one of the documented statuses.
\* (Fails under SpecReload: meters[id] is looked up again at every step, and
\* a reload empties the dict in between.)
C6_NeverRaises ==
    \A c \in Callers :
        /\ pc[c] # "raised"
        /\ pc[c] = "done" => ret[c].Status \in ReturnedStatuses

\* C7: after a reload that met a malformed row, meters holds the ids and the
\* records it held before, and the caller of the reload was told of the failure.
\* (Fails under SpecReload on the second part: do_GET answers "Done" either
\* way, and LoadSettings returns nothing.)
C7_FailedReloadReported ==
    (rpc = "idle" /\ reloads > 0 /\ failed) =>
        /\ dicts[meters] = pre
        /\ reply # "Done"

\* C8: a call that acquired a record's Lock has released that Lock when it is
\* past line 98, on every exit path.
\* (Fails under SpecReload: line 98 looks meters[id] up again and finds the
\* reloaded record, or none.)
C8_GuardReleased ==
    \A c \in Callers :
        pc[c] \in Returning \cup {"done", "raised", "idle"} => hist[c].acq = 0

\* C9: a poll whose fetch or decode failed never writes to the store, and its
\* Status names the failure: 'Modbus Error <code>' or 'Error <message>'.
C9_FailureKeepsCache ==
    /\ [](\A c \in Callers :
            (hist[c].outcome \in Failures /\ pc[c] \in {"release", "done"} \cup Returning)
            => /\ status[c] = ErrorStatus(hist[c].outcome)
               /\ pc[c] = "done" => ret[c].Status = status[c])
    /\ [][\A c \in Callers :
            (hist'[c].outcome \in Failures /\ pc'[c] # pc[c]) => heap' = heap]_vars

\* C9 witness: a call whose fetch met a Modbus error has returned
C9_Witness ==
    \E c \in Callers :
        /\ pc[c] = "done" /\ hist[c].outcome = "modbus"
        /\ ret[c].Status = "Modbus Error 2"

\* C10: after a poll that read a value different from Value, the record has
\* PrevValue = the old Value (the new value in the first-poll case),
\* PrevChangeTime = the old ChangeTime, Value = the new value,
\* Timestamp = ChangeTime, and the Status is 'Polled'.
\* (Fails under SpecPoll on Timestamp = ChangeTime: the two clock reads of C5.)
C10_ChangeRotates ==
    \A c \in Callers :
        (pc[c] = "release" /\ status[c] = "Polled" /\ hist[c].target # 0) =>
            LET r == heap[hist[c].target] IN
            /\ r.Value = val[c]
            /\ r.PrevChangeTime = hist[c].oldChangeTime
            /\ r.PrevValue = IF hist[c].oldChangeTime = DateMin /\ hist[c].oldValue = 0
                             THEN val[c] ELSE hist[c].oldValue
            /\ r.Timestamp = r.ChangeTime

\* C11 as stated: for every decoded value v, the first successful poll of a
\* record that is as loaded leaves Value = v, PrevValue = v and ChangeTime = the
\* time of that poll (a reading of the clock made during the call).
\* (Fails under SpecPoll for v = 0, the Value a record is loaded with: line 83
\* finds no change and ChangeTime stays datetime.min.)
C11_FirstPollAnyValue ==
    \A c \in Callers :
        (pc[c] = "release" /\ hist[c].outcome = "ok" /\ hist[c].first /\ hist[c].target # 0)
        => LET r == heap[hist[c].target] IN
           /\ r.Value = val[c] /\ r.PrevValue = val[c]
           /\ hist[c].checkedAt <= r.ChangeTime /\ r.ChangeTime <= now

\* C11 amended: when the value decoded by the first successful poll of a record
\* that is as loaded differs from the Value it was loaded with, the poll leaves
\* Value = v, PrevValue = v and ChangeTime = a reading of the clock made during
\* the call; when it equals that Value, only Timestamp is written and
\* ChangeTime stays datetime.min.
C11_FirstPollSeeds ==
    \A c \in Callers :
        (pc[c] = "release" /\ hist[c].outcome = "ok" /\ hist[c].first /\ hist[c].target # 0)
        => LET r == heap[hist[c].target] IN
           /\ r.Value = val[c] /\ r.PrevValue = val[c]
           /\ val[c] # 0 => (hist[c].checkedAt <= r.ChangeTime /\ r.ChangeTime <= now)
           /\ val[c] = 0 => r.ChangeTime = DateMin

\* C11 witness: a first poll read 1 and has seeded PrevValue with it
C11_Witness ==
    \E c \in Callers :
        /\ pc[c] = "release" /\ hist[c].outcome = "ok" /\ hist[c].first /\ hist[c].target # 0
        /\ val[c] = 1 /\ heap[hist[c].target].PrevValue = 1
        /\ heap[hist[c].target].PrevChangeTime = DateMin

\* C12: a poll whose decoded value equals the record's Value writes Timestamp =
\* the time of the poll and nothing else (Value, PrevValue, ChangeTime,
\* PrevChangeTime and every other record stay), and its Status is 'Polled but
\* no recent change'.
C12_UnchangedOnlyStamps ==
    [][\A c \in Callers :
         (/\ pc[c] = "update" /\ pc'[c] # pc[c]
          /\ Lookup(c) # 0 /\ val[c] = heap[Lookup(c)].Value)
         => /\ heap' = [heap EXCEPT ![Lookup(c)].Timestamp = now]
            /\ status'[c] = "Polled but no recent change"]_vars

\* C12 witness: a poll of a record that holds 1 read 1 again and has stamped it
C12_Witness ==
    \E c \in Callers :
        /\ pc[c] = "release" /\ status[c] = "Polled but no recent change"
        /\ hist[c].target # 0 /\ val[c] = 1
        /\ heap[hist[c].target].Timestamp = now
        /\ heap[hist[c].target].ChangeTime < now

\* the call of c went past line 77 with the record no older than minpolltime
WithinInterval(c) ==
    /\ hist[c].gate \notin {"none", "keyerror"}
    /\ hist[c].checkedAt - hist[c].seenTs <= MinPollTime
\* the call of c is on its way out through lines 100-101 with Status 'Cached',
\* having acquired nothing and fetched nothing, and what it has returned says
\* 'Cached'
CachedPath(c) ==
    /\ pc[c] \in Returning \cup {"done", "raised"}
    /\ status[c] = "Cached"
    /\ hist[c].acq = 0 /\ hist[c].outcome = "none"
    /\ pc[c] = "done" => ret[c].Status = "Cached"

\* C13: staleness gate.  A call that finds now - Timestamp <= minPollInterval
\* on line 77 returns Status 'Cached'; it issues no fetch, does not try the
\* record's guard, and none of its steps changes a record or a guard.
C13_FreshIsCached ==
    /\ [](\A c \in Callers : WithinInterval(c) => CachedPath(c))
    /\ [][\A c \in Callers :
            (pc'[c] # pc[c] /\ hist'[c].gate = "fresh") => (heap' = heap /\ locks' = locks)]_vars

\* C13 witness: a call that found the record exactly minPollInterval old has
\* returned 'Cached'
C13_Witness ==
    \E c \in Callers :
        /\ pc[c] = "done" /\ hist[c].gate = "fresh" /\ ret[c].Status = "Cached"
        /\ hist[c].checkedAt - hist[c].seenTs = MinPollTime

\* C14: a call on a stale record whose guard another poll holds does not wait:
\* its acquire step goes straight to line 100 with Status 'Cached'; it fetches
\* nothing, none of its steps changes a record, and none releases (or takes)
\* a guard.
C14_BusyIsCached ==
    /\ [][\A c \in Callers :
            (/\ pc[c] = "acquire" /\ pc'[c] # pc[c]
             /\ Lookup(c) # 0 /\ locks[Lookup(c)])
            => (pc'[c] = "ret" /\ status'[c] = "Cached" /\ hist'[c].gate = "busy")]_vars
    /\ [](\A c \in Callers : hist[c].gate = "busy" => CachedPath(c))
    /\ [][\A c \in Callers :
            (pc'[c] # pc[c] /\ hist'[c].gate = "busy") => (heap' = heap /\ locks' = locks)]_vars

\* C14 witness: a call has returned 'Cached' from a busy guard while the poll
\* that holds the guard is still inside its section
C14_Witness ==
    \E c, d \in Callers :
        /\ c # d /\ pc[c] = "done" /\ hist[c].gate = "busy" /\ ret[c].Status = "Cached"
        /\ InSection(d) /\ id[d] = id[c] /\ hist[d].acq # 0 /\ locks[hist[d].acq]

\* C15: every snapshot GoModbus returns shows Value, Timestamp, ChangeTime,
\* PrevValue and PrevChangeTime as the record held them all at one instant of
\* the call.  (Fails under SpecPoll: line 101 reads the five fields one after
\* the other without the guard, and line 84 of another poll runs in between.)
C15_SnapshotConsistent ==
    \A c \in Callers : pc[c] = "done" => Reading(ret[c]) \in hist[c].seen

\* the ids of dict d whose record has AutoUpdate set
Flagged(d) == {d[i].id : i \in {j \in 1..Len(d) : heap[d[j].ref].AutoUpdate}}

\* C16: the AutoPoll thread keeps running, and a cycle that began after the
\* last reload had finished has, when it goes to sleep, passed to GoModbus
\* exactly the ids of the active store whose AutoUpdate is set.
\* (Fails under SpecAuto: the thread iterates the dict object it was started
\* with, which a failed reload leaves behind half filled, and it dies of the
\* RuntimeError or KeyError a reload under way causes.)
C16_CyclePollsFlagged ==
    /\ appc # "crashed"
    /\ (appc = "sleep" /\ rpc = "idle" /\ cycle.clean /\ cycle.at = reloads)
       => cycle.polled = Flagged(dicts[meters])

\* C17: the flag is tested before every cycle, the test is the first thing
\* done after a sleep, no cycle starts once the flag is set, and once it is
\* set the thread ends (after the cycle under way and at most one sleep).
C17_StopsAfterFlag ==
    /\ [][(appc' = "next" /\ appc # "next" /\ appc # "flag" /\ appc # "call")
          => (appc = "top" /\ ~Shutdown)]_vars
    /\ [][(appc = "sleep" /\ appc' # "sleep") => appc' = "top"]_vars
    /\ [][(appc = "top" /\ Shutdown) => appc' \in {"top", "exit"}]_vars
    /\ (Shutdown ~> appc = "exit")

\* C17 witness: the flag was set during a sleep and the thread has ended
\* without a further cycle
C17_Witness ==
    /\ Shutdown /\ appc = "exit" /\ wake > 0 /\ now >= wake

\* C18: a poll inside its section writes to the record whose guard it
\* acquired; every locked guard of the active store is held by a poll that
\* is inside its section; no poll has released a guard that was not locked.
\* (Fails under SpecReload: lines 84-98 look meters[id] up again at every
\* step, and a reload changes what it names.)
C18_SameRecord ==
    /\ \A c \in Callers :
          (InSection(c) /\ hist[c].target # 0) => hist[c].target = hist[c].acq
    /\ \A c \in Callers : hist[c].gate # "unheld"
    /\ rpc = "idle" =>
          \A i \in 1..Len(dicts[meters]) :
              locks[dicts[meters][i].ref] =>
                  \E c \in Callers : InSection(c) /\ hist[c].acq = dicts[meters][i].ref

\* C19: when no reload is running, the dict the AutoPoll thread iterates is
\* the dict the global name meters is bound to, and the id the thread passes
\* to GoModbus is a key of it.
\* (Fails under SpecAuto: line 71 rebinds the global name to a copy.)
C19_SameCollection ==
    rpc = "idle" =>
        /\ meters = APDict
        /\ appc = "call" /\ pc[AP] = "check" => id[AP] \in Keys(dicts[meters])

\* C20: for every record of the active store that no poll is inside its
\* section for, PrevChangeTime = datetime.min implies PrevValue = Value.
C20_SentinelMeansSeeded ==
    \A i \in 1..Len(dicts[meters]) :
        LET o == dicts[meters][i].ref IN
        (~ \E c \in Callers : InSection(c) /\ (hist[c].acq = o \/ Lookup(c) = o))
        => (heap[o].PrevChangeTime = DateMin => heap[o].PrevValue = heap[o].Value)

====
